---- MODULE Spec2Model ----
(***************************************************************************)
(* sse-proto (src/src/main.rs): the placeholder scanner fill_string, the   *)
(* recursive transform fill_object_fields, the SSEQuery validation and the *)
(* streaming loop of the sse handler.                                      *)
(*                                                                         *)
(* A Rust String is a sequence of chars; a char is written as a one-symbol *)
(* TLA+ string, and a char that takes more than one byte in UTF-8 by its   *)
(* code point ("U+00E9").                                                  *)
(***************************************************************************)
EXTENDS Integers, Sequences, FiniteSets, TLC

VARIABLES
    \* fill_string: one call, char by char
    subject_string,     \* the argument
    char_index,         \* number of chars the for loop has consumed
    is_placeholder,
    placeholder_start,
    result,
    calls,              \* the generators invoked so far: <<key, value>> pairs
    fs_pc,              \* "scan" | "done" (returned) | "panic"
    \* fill_object_fields: one call
    object,             \* the argument
    filled,             \* the returned map
    gen_calls,          \* number of generator invocations of the call
    fo_pc,              \* "call" | "done" | "panic"
    \* sse: one streaming session per request
    phase,              \* "VALIDATING" | "STREAMING" | "TERMINATED"
    river_query,        \* [interval_min, interval_max, shape]
    response,           \* "none" | "4xx" | "stream"
    pc,                 \* position in the loop body
    delay,
    shape,              \* the parsed shape of the current iteration
    message,
    events,             \* the events yielded to the client, in order
    draws,              \* number of gen_range calls
    sleeps,             \* number of completed sleeps
    fills,              \* number of fill_object_fields calls
    cause               \* why the session is TERMINATED

fs_vars == <<subject_string, char_index, is_placeholder, placeholder_start,
             result, calls, fs_pc>>
fo_vars == <<object, filled, gen_calls, fo_pc>>
sse_vars == <<phase, river_query, response, pc, delay, shape, message, events,
              draws, sleeps, fills, cause>>
vars == <<fs_vars, fo_vars, sse_vars>>

----------------------------------------------------------------------------
(* Bounds of the model *)

\* inputs of fill_string are concatenations of at most MaxPieces pieces
MaxPieces == 4
\* nesting depth of the objects given to fill_object_fields
MaxDepth == 2
\* events a session emits before the model stops following it
MaxEvents == 2

----------------------------------------------------------------------------
(* Strings *)

EAcute == "U+00E9"
Euro == "U+20AC"

\* char::len_utf8
len_utf8(c) == IF c = EAcute THEN 2 ELSE IF c = Euro THEN 3 ELSE 1

RECURSIVE BytesBefore(_, _)
\* byte offset of the n-th char boundary of s (n chars precede it)
BytesBefore(s, n) == IF n = 0 THEN 0 ELSE BytesBefore(s, n - 1) + len_utf8(s[n])

\* str::len: the length in bytes
ByteLen(s) == BytesBefore(s, Len(s))

\* str::is_char_boundary
is_char_boundary(s, b) == \E n \in 0..Len(s) : BytesBefore(s, n) = b

\* whether &s[a..b] is a valid slice (str indexing panics otherwise)
SliceOk(s, a, b) ==
    /\ a <= b
    /\ b <= ByteLen(s)
    /\ is_char_boundary(s, a)
    /\ is_char_boundary(s, b)

CharsBefore(s, b) == CHOOSE n \in 0..Len(s) : BytesBefore(s, n) = b

\* &s[a..b] for byte offsets a, b, when SliceOk
Slice(s, a, b) == SubSeq(s, CharsBefore(s, a) + 1, CharsBefore(s, b))

\* String::push_str
push_str(s, t) == s \o t

\* String::push
push(s, c) == Append(s, c)

----------------------------------------------------------------------------
(* The Generator Registry.  A generator is a zero-argument closure over a
   randomness source: a call returns any one of its values, of which the
   model keeps two samples per key (shortened; bool's are exact). *)

Key_address == <<"a", "d", "d", "r", "e", "s", "s">>
Key_bool == <<"b", "o", "o", "l">>
Key_city == <<"c", "i", "t", "y">>
Key_color == <<"c", "o", "l", "o", "r">>
Key_creditcard == <<"c", "r", "e", "d", "i", "t", "c", "a", "r", "d">>
Key_datetime == <<"d", "a", "t", "e", "t", "i", "m", "e">>
Key_email == <<"e", "m", "a", "i", "l">>
Key_ip == <<"i", "p">>
Key_name == <<"n", "a", "m", "e">>
Key_number == <<"n", "u", "m", "b", "e", "r">>
Key_paragraph == <<"p", "a", "r", "a", "g", "r", "a", "p", "h">>
Key_phone == <<"p", "h", "o", "n", "e">>
Key_uuid == <<"u", "u", "i", "d">>
Key_words == <<"w", "o", "r", "d", "s">>
Key_zip == <<"z", "i", "p">>

RegisteredKeys ==
    {Key_address, Key_bool, Key_city, Key_color, Key_creditcard,
     Key_datetime, Key_email, Key_ip, Key_name, Key_number,
     Key_paragraph, Key_phone, Key_uuid, Key_words, Key_zip}

\* the values the generator registered under key may return
Generate(key) ==
    CASE key = Key_address -> {<<"O", "a", "k", " ", "R", "d">>, <<"E", "l", "m", " ", "S", "t">>}
      [] key = Key_bool -> {<<"t", "r", "u", "e">>, <<"f", "a", "l", "s", "e">>}
      [] key = Key_city -> {<<"R", "o", "m", "e">>, <<"O", "s", "l", "o">>}
      [] key = Key_color -> {<<"#", "F", "F", "F">>, <<"#", "0", "A", "0">>}
      [] key = Key_creditcard -> {<<"4", "1", "1", "1">>, <<"5", "5", "0", "0">>}
      [] key = Key_datetime -> {<<"T", "0", "Z">>, <<"T", "1", "Z">>}
      [] key = Key_email -> {<<"a", "@", "x", ".", "y">>, <<"b", "@", "x", ".", "y">>}
      [] key = Key_ip -> {<<"1", ".", "2">>, <<"3", ".", "4">>}
      [] key = Key_name -> {<<"A", "n", "n">>, <<"B", "o", "b">>}
      [] key = Key_number -> {<<"1", "2", "3">>, <<"9", "0", "7">>}
      [] key = Key_paragraph -> {<<"L", "o", ".">>, <<"I", "p", ".", " ", "S", "u", ".">>}
      [] key = Key_phone -> {<<"5", "5", "5">>, <<"9", "1", "1">>}
      [] key = Key_uuid -> {<<"a", "-", "1">>, <<"b", "-", "2">>}
      [] key = Key_words -> {<<"a", " ", "b", " ", "c">>, <<"d", " ", "e", " ", "f", " ", "g">>}
      [] key = Key_zip -> {<<"1", "2", "3">>, <<"4", "5", "6">>}

\* the map built by generate_replacements!: key -> generator
STRING_SUBSTITUTIONS == [key \in RegisteredKeys |-> Generate(key)]

\* HashMap::get: Some(generator) exactly for the registered keys
contains_key(key) == key \in DOMAIN STRING_SUBSTITUTIONS

----------------------------------------------------------------------------
(* fill_string (main.rs 61-93) *)

Backslash == "\\"

\* line 68 without the backslash test
IsSkipped_Never(char) == FALSE

\* line 68: the char the scanner swallows
IsSkipped(char) == char = Backslash

\* line 72 recording the index of the '{' itself
KeyStart_AtBrace(index) == index

\* line 72: the recorded start of the key, from the index of the '{'
KeyStart(index) == index + 1

\* line 78: the lookup key &subject_string[placeholder_start..char_index];
\* the offsets are char counts from chars().enumerate(), used as byte offsets
KeySliceOk(s, start, index) == SliceOk(s, start, index)

KeySlice(s, start, index) == Slice(s, start, index)

\* the locals of fill_string at entry (lines 62-65)
ScanInit ==
    [is_placeholder |-> FALSE, placeholder_start |-> 0, result |-> <<>>,
     calls |-> <<>>, panicked |-> FALSE]

\* the loop body without the is_placeholder test on ordinary chars: the
\* chars of a key are copied to the result as they are met
ScanChar_CopiesKeyChars(s, index, st) ==
    LET char == s[index + 1] IN
    IF IsSkipped(char) THEN {st}
    ELSE IF char = "{" THEN
        {[st EXCEPT !.is_placeholder = TRUE, !.placeholder_start = KeyStart(index)]}
    ELSE IF st.is_placeholder /\ char = "}" THEN
        IF ~KeySliceOk(s, st.placeholder_start, index) THEN
            {[st EXCEPT !.panicked = TRUE]}
        ELSE LET key == KeySlice(s, st.placeholder_start, index) IN
            IF contains_key(key) THEN
                {[st EXCEPT !.result = push_str(@, value),
                            !.calls = Append(@, <<key, value>>),
                            !.is_placeholder = FALSE,
                            !.placeholder_start = 0]
                    : value \in STRING_SUBSTITUTIONS[key]}
            ELSE {st}
    ELSE {[st EXCEPT !.result = push(@, char)]}

\* the loop body with a '}' met outside a placeholder thrown away
ScanChar_DropsStrayClose(s, index, st) ==
    LET char == s[index + 1] IN
    IF IsSkipped(char) THEN {st}
    ELSE IF char = "{" THEN
        {[st EXCEPT !.is_placeholder = TRUE, !.placeholder_start = KeyStart(index)]}
    ELSE IF st.is_placeholder THEN
        IF char = "}" THEN
            IF ~KeySliceOk(s, st.placeholder_start, index) THEN
                {[st EXCEPT !.panicked = TRUE]}
            ELSE LET key == KeySlice(s, st.placeholder_start, index) IN
                IF contains_key(key) THEN
                    {[st EXCEPT !.result = push_str(@, value),
                                !.calls = Append(@, <<key, value>>),
                                !.is_placeholder = FALSE,
                                !.placeholder_start = 0]
                        : value \in STRING_SUBSTITUTIONS[key]}
                ELSE {st}
        ELSE {st}
    ELSE IF char = "}" THEN {st}
    ELSE {[st EXCEPT !.result = push(@, char)]}

\* one iteration of the for loop (lines 67-90) on the char at 0-based index
\* `index`, from the locals st: the set of outcomes (one per value the
\* generator may return)
ScanChar(s, index, st) ==
    LET char == s[index + 1] IN
    IF IsSkipped(char) THEN {st}
    ELSE IF char = "{" THEN
        {[st EXCEPT !.is_placeholder = TRUE, !.placeholder_start = KeyStart(index)]}
    ELSE IF st.is_placeholder THEN
        IF char = "}" THEN
            IF ~KeySliceOk(s, st.placeholder_start, index) THEN
                {[st EXCEPT !.panicked = TRUE]}
            ELSE LET key == KeySlice(s, st.placeholder_start, index) IN
                IF contains_key(key) THEN
                    {[st EXCEPT !.result = push_str(@, value),
                                !.calls = Append(@, <<key, value>>),
                                !.is_placeholder = FALSE,
                                !.placeholder_start = 0]
                        : value \in STRING_SUBSTITUTIONS[key]}
                ELSE {st}
        ELSE {st}
    ELSE {[st EXCEPT !.result = push(@, char)]}

RECURSIVE ScanPrefix(_, _)
\* the locals after the first n iterations, for every choice of generator
\* values; a panic ends the scan
ScanPrefix(s, n) ==
    IF n = 0 THEN {ScanInit}
    ELSE UNION {IF st.panicked THEN {st} ELSE ScanChar(s, n - 1, st)
                    : st \in ScanPrefix(s, n - 1)}

\* the outcomes of fill_string(s): [result, calls, panicked]
fill_string(s) == ScanPrefix(s, Len(s))

\* the locals of the running call, as a record
Locals ==
    [is_placeholder |-> is_placeholder, placeholder_start |-> placeholder_start,
     result |-> result, calls |-> calls, panicked |-> FALSE]

\* the for loop takes the next char (no panic)
ScanStep ==
    /\ fs_pc = "scan"
    /\ char_index < Len(subject_string)
    /\ \E st \in ScanChar(subject_string, char_index, Locals) :
        /\ ~st.panicked
        /\ is_placeholder' = st.is_placeholder
        /\ placeholder_start' = st.placeholder_start
        /\ result' = st.result
        /\ calls' = st.calls
    /\ char_index' = char_index + 1
    /\ UNCHANGED <<subject_string, fs_pc, fo_vars, sse_vars>>

\* the key slice of line 78 panics
ScanPanic ==
    /\ fs_pc = "scan"
    /\ char_index < Len(subject_string)
    /\ \E st \in ScanChar(subject_string, char_index, Locals) : st.panicked
    /\ fs_pc' = "panic"
    /\ UNCHANGED <<subject_string, char_index, is_placeholder, placeholder_start,
                   result, calls, fo_vars, sse_vars>>

\* line 92: Value::String(result)
ScanReturn ==
    /\ fs_pc = "scan"
    /\ char_index = Len(subject_string)
    /\ fs_pc' = "done"
    /\ UNCHANGED <<subject_string, char_index, is_placeholder, placeholder_start,
                   result, calls, fo_vars, sse_vars>>

(* Inputs of fill_string: every concatenation of at most MaxPieces pieces,
   the string "{k}" of every registered key k, and the strings the
   documentation names. *)

Key_no == <<"n", "o">>
Literal == <<"l", "i", "t", "e", "r", "a", "l">>
Key_bad == <<"b", "a", "d">>

Pieces ==
    {<<Backslash>>, <<"{">>, <<"}">>, <<"x">>, <<EAcute>>, Key_ip, Key_no}

RECURSIVE Concats(_)
Concats(n) ==
    IF n = 0 THEN {<<>>}
    ELSE Concats(n - 1) \cup {s \o p : s \in Concats(n - 1), p \in Pieces}

Braced(key) == <<"{">> \o key \o <<"}">>

EscapedLiteral == <<Backslash, "{">> \o Literal \o <<Backslash, "}">>

SampleStrings ==
    {Braced(k) : k \in RegisteredKeys}
    \cup {EscapedLiteral, Braced(Key_bad) \o Braced(Key_name),
          Braced(Key_no) \o Braced(Key_ip),
          Braced(<<EAcute>>) \o Braced(Key_name),
          <<"{">> \o <<Euro>> \o <<"}">>,
          <<"a", Backslash, "b">>}

SubjectStrings == Concats(MaxPieces) \cup SampleStrings

----------------------------------------------------------------------------
(* serde_json::Value: [type, val]; the val of an object is its Map, a
   function from its keys *)

JNull == [type |-> "null", val |-> "null"]
JBool(b) == [type |-> "bool", val |-> b]
JNumber(n) == [type |-> "number", val |-> n]
JString(s) == [type |-> "string", val |-> s]
JArray(items) == [type |-> "array", val |-> items]
JObject(map) == [type |-> "object", val |-> map]

(* fill_object_fields (main.rs 95-108).  An outcome of a call is
   [value, n, ok]: the value returned, the number of generators invoked, and
   ok = FALSE when the call panicked (then value and n mean nothing). *)

Panicked == [value |-> JNull, n |-> 0, ok |-> FALSE]

RECURSIVE SumCalls(_, _)
SumCalls(f, keys) ==
    IF keys = {} THEN 0
    ELSE LET k == CHOOSE x \in keys : TRUE IN f[k].n + SumCalls(f, keys \ {k})

RECURSIVE fill_object_fields(_)
RECURSIVE FillValue(_)

\* line 100: Value::Object(object) => Value::Object(fill_object_fields(object))
ObjectArm(map) ==
    {IF o.ok THEN [value |-> JObject(o.value), n |-> o.n, ok |-> TRUE] ELSE Panicked
        : o \in fill_object_fields(map)}

\* line 101 cloning the string as the catch-all arm does
StringArm_Clone(s) == {[value |-> JString(s), n |-> 0, ok |-> TRUE]}

\* line 101: Value::String(subject_string) => fill_string(subject_string)
StringArm(s) ==
    {IF st.panicked THEN Panicked
     ELSE [value |-> JString(st.result), n |-> Len(st.calls), ok |-> TRUE]
        : st \in fill_string(s)}

\* line 102 with an arm that maps the fill over the elements of an array
OtherArm_IntoArrays(value) ==
    IF value.type = "array" THEN
        LET idx == DOMAIN value.val
            perItem == {f \in [idx -> UNION {FillValue(value.val[i]) : i \in idx}] :
                            \A i \in idx : f[i] \in FillValue(value.val[i])}
        IN {[value |-> JArray([i \in idx |-> f[i].value]), n |-> SumCalls(f, idx),
             ok |-> \A i \in idx : f[i].ok] : f \in perItem}
    ELSE {[value |-> value, n |-> 0, ok |-> TRUE]}

\* line 102: _ => value.clone()
OtherArm(value) == {[value |-> value, n |-> 0, ok |-> TRUE]}

\* the match of lines 99-103 on one field's value
FillValue(value) ==
    CASE value.type = "object" -> ObjectArm(value.val)
      [] value.type = "string" -> StringArm(value.val)
      [] OTHER -> OtherArm(value)

\* lines 96-107: map every (key, value) and collect into a new Map
fill_object_fields(map) ==
    LET keys == DOMAIN map
        perField == {f \in [keys -> UNION {FillValue(map[k]) : k \in keys}] :
                        \A k \in keys : f[k] \in FillValue(map[k])}
    IN {IF \A k \in keys : f[k].ok
        THEN [value |-> [k \in keys |-> f[k].value], n |-> SumCalls(f, keys),
              ok |-> TRUE]
        ELSE Panicked
            : f \in perField}

\* one call returns
FillObject ==
    /\ fo_pc = "call"
    /\ \E o \in fill_object_fields(object) :
        /\ o.ok
        /\ filled' = o.value
        /\ gen_calls' = o.n
    /\ fo_pc' = "done"
    /\ UNCHANGED <<object, fs_vars, sse_vars>>

\* one call panics in fill_string
FillObjectPanic ==
    /\ fo_pc = "call"
    /\ \E o \in fill_object_fields(object) : ~o.ok
    /\ fo_pc' = "panic"
    /\ UNCHANGED <<object, filled, gen_calls, fs_vars, sse_vars>>

(* Inputs of fill_object_fields: maps over the keys "a" and "b" whose values
   are leaves or objects nested to depth MaxDepth. *)

PlaceholderString == JString(Braced(Key_bool))

Leaves ==
    {JNumber(42), JBool(TRUE), JNull, PlaceholderString, JString(<<"x">>),
     JString(<<"{", Euro, "}">>),
     JArray(<<PlaceholderString, JObject([c |-> PlaceholderString])>>)}

RECURSIVE Nested(_)
\* the objects {"c": v} of depth at most d
Nested(d) ==
    IF d = 0 THEN {}
    ELSE {JObject([c |-> v]) : v \in Leaves \cup Nested(d - 1)}

Absent == [type |-> "absent", val |-> "absent"]

Objects ==
    LET field == Leaves \cup Nested(MaxDepth - 1) \cup {Absent} IN
    {[k \in {k \in {"a", "b"} : c[k] # Absent} |-> c[k]]
        : c \in [{"a", "b"} -> field]}

----------------------------------------------------------------------------
(* SSEQuery and the sse handler (main.rs 110-141) *)

\* line 112: #[validate(range(min = 1000, ...))] interval_min
INTERVAL_MIN_FLOOR == 1000
\* line 114: #[validate(range(min = 2000, ...))] interval_max
INTERVAL_MAX_FLOOR == 2000

\* validate without the range attribute of interval_max
validate_MinOnly(q) == q.interval_min >= INTERVAL_MIN_FLOOR

\* validate with the floor of interval_min on both fields
validate_SameFloor(q) ==
    /\ q.interval_min >= INTERVAL_MIN_FLOOR
    /\ q.interval_max >= INTERVAL_MIN_FLOOR

\* validate with a cross-field check added
validate_Ordered(q) ==
    /\ q.interval_min >= INTERVAL_MIN_FLOOR
    /\ q.interval_max >= INTERVAL_MAX_FLOOR
    /\ q.interval_min < q.interval_max

\* the derived Validate::validate of SSEQuery, run by the Valid extractor
validate(q) ==
    /\ q.interval_min >= INTERVAL_MIN_FLOOR
    /\ q.interval_max >= INTERVAL_MAX_FLOOR

\* line 126 with the bounds put in order before sampling
gen_range_Reordering(low, high) ==
    IF low < high THEN {d \in low..(high - 1) : TRUE} ELSE {d \in high..low : TRUE}

\* line 126 with the inclusive range low..=high
gen_range_Inclusive(low, high) == {d \in low..high : TRUE}

\* line 126: the values thread_rng().gen_range(low..high) may return; the
\* call panics when the range is empty
gen_range(low, high) == {d \in low..(high - 1) : TRUE}

\* The shape query parameter is a string; the model keeps what it parses
\* to: a text that serde_json parses to `value`, or a text it rejects.
JsonText(value) == [kind |-> "json", value |-> value]
NotJson == [kind |-> "garbage", value |-> JNull]

\* lines 130-131 without the as_object() test: any JSON root passes
ParsesToObject_AnyJson(text) == text.kind = "json"

\* line 130-131: from_str(shape).unwrap().as_object().unwrap() succeeds
ParsesToObject(text) == text.kind = "json" /\ text.value.type = "object"

\* the Map the two unwraps of lines 130-131 yield
from_str(text) == text.value.val

Set(f, s, v) == [f EXCEPT ![s] = v]

\* the handler with a loop body that builds and yields first and sleeps after
Accept_EmitFirst(s) ==
    /\ phase[s] = "VALIDATING"
    /\ validate(river_query[s])
    /\ phase' = Set(phase, s, "STREAMING")
    /\ response' = Set(response, s, "stream")
    /\ pc' = Set(pc, s, "parse")
    /\ UNCHANGED <<river_query, delay, shape, message, events, draws, sleeps,
                   fills, cause, fs_vars, fo_vars>>

\* the Valid<Query<SSEQuery>> extractor accepts: the handler runs and
\* returns Sse::new(stream) (line 140)
Accept(s) ==
    /\ phase[s] = "VALIDATING"
    /\ validate(river_query[s])
    /\ phase' = Set(phase, s, "STREAMING")
    /\ response' = Set(response, s, "stream")
    /\ pc' = Set(pc, s, "draw")
    /\ UNCHANGED <<river_query, delay, shape, message, events, draws, sleeps,
                   fills, cause, fs_vars, fo_vars>>

\* the extractor rejects: the handler never runs, the client gets the error
Reject(s) ==
    /\ phase[s] = "VALIDATING"
    /\ ~validate(river_query[s])
    /\ phase' = Set(phase, s, "TERMINATED")
    /\ response' = Set(response, s, "4xx")
    /\ cause' = Set(cause, s, "validation")
    /\ UNCHANGED <<river_query, pc, delay, shape, message, events, draws,
                   sleeps, fills, fs_vars, fo_vars>>

\* a panic that takes the whole process down (panic = "abort")
Panic_AbortsProcess(s, why) ==
    /\ phase' = [t \in DOMAIN phase |-> "TERMINATED"]
    /\ cause' = [t \in DOMAIN cause |-> IF t = s THEN why ELSE "aborted"]
    /\ pc' = Set(pc, s, "dead")

\* a panic inside the stream ends the session
Panic(s, why) ==
    /\ phase' = Set(phase, s, "TERMINATED")
    /\ cause' = Set(cause, s, why)
    /\ pc' = Set(pc, s, "dead")

\* lines 125-127: draw the delay
DrawDelay(s) ==
    /\ phase[s] = "STREAMING" /\ pc[s] = "draw"
    /\ Len(events[s]) < MaxEvents
    /\ \E d \in gen_range(river_query[s].interval_min, river_query[s].interval_max) :
        delay' = Set(delay, s, d)
    /\ draws' = Set(draws, s, draws[s] + 1)
    /\ pc' = Set(pc, s, "sleep")
    /\ UNCHANGED <<phase, river_query, response, shape, message, events, sleeps,
                   fills, cause, fs_vars, fo_vars>>

\* line 126: gen_range panics on an empty range
DrawPanic(s) ==
    /\ phase[s] = "STREAMING" /\ pc[s] = "draw"
    /\ gen_range(river_query[s].interval_min, river_query[s].interval_max) = {}
    /\ Panic(s, "empty range")
    /\ UNCHANGED <<river_query, response, delay, shape, message, events, draws,
                   sleeps, fills, fs_vars, fo_vars>>

\* line 128: sleep(delay).await completes; delay is moved into the sleep
\* and not read again, so the model forgets it
Sleep(s) ==
    /\ phase[s] = "STREAMING" /\ pc[s] = "sleep"
    /\ sleeps' = Set(sleeps, s, sleeps[s] + 1)
    /\ delay' = Set(delay, s, 0)
    /\ pc' = Set(pc, s, "parse")
    /\ UNCHANGED <<phase, river_query, response, shape, message, events,
                   draws, fills, cause, fs_vars, fo_vars>>

\* lines 130-131: parse the shape
Parse(s) ==
    /\ phase[s] = "STREAMING" /\ pc[s] = "parse"
    /\ ParsesToObject(river_query[s].shape)
    /\ shape' = Set(shape, s, from_str(river_query[s].shape))
    /\ pc' = Set(pc, s, "fill")
    /\ UNCHANGED <<phase, river_query, response, delay, message, events, draws,
                   sleeps, fills, cause, fs_vars, fo_vars>>

\* lines 130-131 with a parse that may fail on any tick, whatever the shape
ParsePanic_AnyTick(s) ==
    /\ phase[s] = "STREAMING" /\ pc[s] = "parse"
    /\ Panic(s, "parse")
    /\ UNCHANGED <<river_query, response, delay, shape, message, events, draws,
                   sleeps, fills, fs_vars, fo_vars>>

\* lines 130-131: one of the two unwraps panics
ParsePanic(s) ==
    /\ phase[s] = "STREAMING" /\ pc[s] = "parse"
    /\ ~ParsesToObject(river_query[s].shape)
    /\ Panic(s, "parse")
    /\ UNCHANGED <<river_query, response, delay, shape, message, events, draws,
                   sleeps, fills, fs_vars, fo_vars>>

\* lines 133-134: fill the shape
Fill(s) ==
    /\ phase[s] = "STREAMING" /\ pc[s] = "fill"
    /\ \E o \in fill_object_fields(shape[s]) :
        /\ o.ok
        /\ message' = Set(message, s, o.value)
    /\ fills' = Set(fills, s, fills[s] + 1)
    /\ pc' = Set(pc, s, "emit")
    /\ UNCHANGED <<phase, river_query, response, delay, shape, events, draws,
                   sleeps, cause, fs_vars, fo_vars>>

\* line 133: fill_string panics inside fill_object_fields
FillPanic(s) ==
    /\ phase[s] = "STREAMING" /\ pc[s] = "fill"
    /\ \E o \in fill_object_fields(shape[s]) : ~o.ok
    /\ fills' = Set(fills, s, fills[s] + 1)
    /\ Panic(s, "fill")
    /\ UNCHANGED <<river_query, response, delay, shape, message, events, draws,
                   sleeps, fs_vars, fo_vars>>

\* line 136: yield the event
Emit(s) ==
    /\ phase[s] = "STREAMING" /\ pc[s] = "emit"
    /\ events' = Set(events, s, Append(events[s], message[s]))
    /\ pc' = Set(pc, s, "draw")
    /\ UNCHANGED <<phase, river_query, response, delay, shape, message, draws,
                   sleeps, fills, cause, fs_vars, fo_vars>>

\* the client disconnects: the stream is dropped where it is suspended, at
\* the sleep or at the yield (or before its first poll)
Disconnect(s) ==
    /\ phase[s] = "STREAMING" /\ pc[s] \in {"draw", "sleep"}
    /\ phase' = Set(phase, s, "TERMINATED")
    /\ cause' = Set(cause, s, "disconnect")
    /\ UNCHANGED <<river_query, response, pc, delay, shape, message, events,
                   draws, sleeps, fills, fs_vars, fo_vars>>

(* Requests *)

IntervalMins == {500, 999, 1000, 1999, 2000, 2001}
IntervalMaxs == {999, 1000, 1999, 2000, 2001}

Shapes ==
    {JsonText(JObject([id |-> PlaceholderString])),
     JsonText(JObject([a |-> JObject([c |-> PlaceholderString]),
                       b |-> JNumber(42)])),
     JsonText(JObject([id |-> JString(<<"{", Euro, "}">>)])),
     JsonText(JArray(<<PlaceholderString>>)),
     NotJson}

Queries ==
    {[interval_min |-> lo, interval_max |-> hi, shape |-> sh]
        : lo \in IntervalMins, hi \in IntervalMaxs, sh \in Shapes}
    \cup {[interval_min |-> 500, interval_max |-> 5000, shape |-> sh]
            : sh \in Shapes}

----------------------------------------------------------------------------
(* Specifications *)

\* no call of fill_string in progress
FsIdle ==
    /\ subject_string = <<>> /\ char_index = 0
    /\ is_placeholder = FALSE /\ placeholder_start = 0
    /\ result = <<>> /\ calls = <<>> /\ fs_pc = "idle"

\* no call of fill_object_fields in progress
FoIdle ==
    /\ object = <<>> /\ filled = <<>> /\ gen_calls = 0 /\ fo_pc = "idle"

\* the sessions in `ids`, each with a request waiting for validation
Requests(ids) ==
    /\ phase = [s \in ids |-> "VALIDATING"]
    /\ river_query \in [ids -> Queries]
    /\ response = [s \in ids |-> "none"]
    /\ pc = [s \in ids |-> "extract"]
    /\ delay = [s \in ids |-> 0]
    /\ shape = [s \in ids |-> <<>>]
    /\ message = [s \in ids |-> <<>>]
    /\ events = [s \in ids |-> <<>>]
    /\ draws = [s \in ids |-> 0]
    /\ sleeps = [s \in ids |-> 0]
    /\ fills = [s \in ids |-> 0]
    /\ cause = [s \in ids |-> "none"]

\* one request and its session
Init == Requests({"s1"}) /\ FsIdle /\ FoIdle

Next ==
    \/ \E s \in DOMAIN phase : Accept(s)
    \/ \E s \in DOMAIN phase : Reject(s)
    \/ \E s \in DOMAIN phase : DrawDelay(s)
    \/ \E s \in DOMAIN phase : DrawPanic(s)
    \/ \E s \in DOMAIN phase : Sleep(s)
    \/ \E s \in DOMAIN phase : Parse(s)
    \/ \E s \in DOMAIN phase : ParsePanic(s)
    \/ \E s \in DOMAIN phase : Fill(s)
    \/ \E s \in DOMAIN phase : FillPanic(s)
    \/ \E s \in DOMAIN phase : Emit(s)
    \/ \E s \in DOMAIN phase : Disconnect(s)

Spec == Init /\ [][Next]_vars

(* Two concurrent requests and their sessions, interleaved in any order.
   The delay ranges are kept narrow: the accepted requests have a range of
   0, 1 or 2 values. *)

ConcIntervalMins == {999, 1999, 2001}
ConcIntervalMaxs == {2000, 2001}

ConcShapes ==
    {JsonText(JObject([id |-> PlaceholderString])),
     JsonText(JObject([id |-> JString(<<"{", Euro, "}">>)])),
     NotJson}

ConcQueries ==
    {[interval_min |-> lo, interval_max |-> hi, shape |-> sh]
        : lo \in ConcIntervalMins, hi \in ConcIntervalMaxs, sh \in ConcShapes}

ConcSessions == {"s1", "s2"}

InitConc ==
    /\ phase = [s \in ConcSessions |-> "VALIDATING"]
    /\ river_query \in [ConcSessions -> ConcQueries]
    /\ response = [s \in ConcSessions |-> "none"]
    /\ pc = [s \in ConcSessions |-> "extract"]
    /\ delay = [s \in ConcSessions |-> 0]
    /\ shape = [s \in ConcSessions |-> <<>>]
    /\ message = [s \in ConcSessions |-> <<>>]
    /\ events = [s \in ConcSessions |-> <<>>]
    /\ draws = [s \in ConcSessions |-> 0]
    /\ sleeps = [s \in ConcSessions |-> 0]
    /\ fills = [s \in ConcSessions |-> 0]
    /\ cause = [s \in ConcSessions |-> "none"]
    /\ FsIdle /\ FoIdle

SpecConc == InitConc /\ [][Next]_vars

\* one call of fill_string on any of the input strings
InitFill ==
    /\ subject_string \in SubjectStrings
    /\ char_index = 0
    /\ is_placeholder = ScanInit.is_placeholder
    /\ placeholder_start = ScanInit.placeholder_start
    /\ result = ScanInit.result
    /\ calls = ScanInit.calls
    /\ fs_pc = "scan"
    /\ FoIdle
    /\ Requests({})

NextFill == ScanStep \/ ScanPanic \/ ScanReturn

SpecFill == InitFill /\ [][NextFill]_vars

\* one call of fill_object_fields on any of the input objects
InitObject ==
    /\ object \in Objects
    /\ filled = <<>>
    /\ gen_calls = 0
    /\ fo_pc = "call"
    /\ FsIdle
    /\ Requests({})

NextObject == FillObject \/ FillObjectPanic

SpecObject == InitObject /\ [][NextObject]_vars

----------------------------------------------------------------------------
(* Properties *)

Sessions == DOMAIN phase

\* a request below one of the floors of lines 112 and 114
BelowFloor(q) == q.interval_min < 1000 \/ q.interval_max < 2000

\* the session's request was answered with the event stream
Accepted(s) == response[s] = "stream"

\* the extractor has decided on the session's request
Validated(s) == phase[s] # "VALIDATING"

(* C1: a request with interval_min or interval_max below its floor is never
   in STREAMING: its session is VALIDATING or TERMINATED, it ends with the
   client-visible 4xx error, and no delay is drawn, no sleep completes and
   no event is emitted for it. *)
C1_RejectedNeverStreams ==
    \A s \in Sessions :
        BelowFloor(river_query[s]) =>
            /\ phase[s] \in {"VALIDATING", "TERMINATED"}
            /\ phase[s] = "TERMINATED" =>
                    response[s] = "4xx" /\ cause[s] = "validation"
            /\ draws[s] = 0 /\ sleeps[s] = 0 /\ fills[s] = 0
            /\ events[s] = <<>>

C1_Witness ==
    \E s \in Sessions :
        /\ BelowFloor(river_query[s])
        /\ phase[s] = "TERMINATED" /\ response[s] = "4xx"

(* C2 as stated: a request is accepted exactly when interval_min >= 1000 and
   interval_max >= 1000. *)
C2_FloorsBoth1000 ==
    \A s \in Sessions :
        Validated(s) =>
            (Accepted(s) <=> /\ river_query[s].interval_min >= 1000
                             /\ river_query[s].interval_max >= 1000)

(* C2 amended: a request is accepted, and its session enters STREAMING,
   exactly when interval_min >= 1000 and interval_max >= 2000; every other
   request is rejected with the 4xx error. *)
C2_FloorsAsValidated ==
    \A s \in Sessions :
        Validated(s) =>
            /\ Accepted(s) <=> /\ river_query[s].interval_min >= 1000
                               /\ river_query[s].interval_max >= 2000
            /\ Accepted(s) \/ (response[s] = "4xx" /\ phase[s] = "TERMINATED")
            /\ Accepted(s) => cause[s] # "validation"

C2_Witness ==
    \E s \in Sessions :
        /\ river_query[s].interval_min = 1000
        /\ river_query[s].interval_max = 2000
        /\ phase[s] = "STREAMING"

(* C3: validation does not compare the two fields: a request whose
   interval_min and interval_max each meet their own floor is accepted even
   when interval_min >= interval_max. *)
C3_NoCrossFieldCheck ==
    \A s \in Sessions :
        /\ Validated(s)
        /\ ~BelowFloor(river_query[s])
        /\ river_query[s].interval_min >= river_query[s].interval_max
        => Accepted(s) /\ cause[s] # "validation"

C3_Witness ==
    \E s \in Sessions :
        /\ river_query[s].interval_min > river_query[s].interval_max
        /\ phase[s] = "STREAMING" /\ Accepted(s)

(* C4: whenever a session sleeps, the delay d it sleeps for satisfies
   interval_min <= d < interval_max for the session's own parameters. *)
C4_DelayInRange ==
    \A s \in Sessions :
        pc[s] = "sleep" =>
            /\ river_query[s].interval_min <= delay[s]
            /\ delay[s] < river_query[s].interval_max

C4_Witness ==
    \E s \in Sessions :
        /\ pc[s] = "sleep" /\ phase[s] = "STREAMING"
        /\ delay[s] = river_query[s].interval_max - 1
        /\ delay[s] > river_query[s].interval_min
        /\ Len(events[s]) > 0

NoBraces(s) == \A i \in 1..Len(s) : s[i] \notin {"{", "}"}

NotBackslash(c) == c # "\\"

(* C5 as stated: fill_string of a string with neither '{' nor '}' returns
   the string itself, backslashes included. *)
C5_NoBracesUnchanged ==
    (fs_pc = "done" /\ NoBraces(subject_string)) => result = subject_string

(* C5 amended: fill_string of a string with neither '{' nor '}' returns the
   string with every backslash removed (so a string that has no backslash
   either is returned unchanged), invoking no generator. *)
C5_NoBracesOnlyBackslashesDropped ==
    /\ NoBraces(subject_string) => fs_pc # "panic"
    /\ (fs_pc = "done" /\ NoBraces(subject_string)) =>
            /\ result = SelectSeq(subject_string, NotBackslash)
            /\ calls = <<>>

C5_Witness ==
    /\ fs_pc = "done"
    /\ subject_string = <<"a", "\\", "b">>
    /\ result = <<"a", "b">>

\* every '{' of s comes right after a backslash
OpenBracesEscaped(s) ==
    \A i \in 1..Len(s) : s[i] = "{" => (i > 1 /\ s[i - 1] = "\\")

(* C6: a backslash escapes the char after it: a '{' right after a backslash
   never puts the scanner inside a placeholder, and fill_string of
   \{literal\} returns literal. *)
C6_BackslashEscapes ==
    /\ (fs_pc # "idle" /\ OpenBracesEscaped(subject_string)) => ~is_placeholder
    /\ (fs_pc = "done" /\ subject_string = EscapedLiteral) => result = Literal

(* C7: for every registered key k, fill_string of "{k}" does not fail,
   invokes the generator of k exactly once and no other, returns exactly the
   value of that call, and ends outside any placeholder. *)
C7_SolePlaceholder ==
    \A k \in RegisteredKeys :
        subject_string = Braced(k) =>
            /\ fs_pc # "panic"
            /\ fs_pc = "done" =>
                /\ Len(calls) = 1
                /\ calls[1][1] = k
                /\ calls[1][2] \in Generate(k)
                /\ result = calls[1][2]
                /\ ~is_placeholder

C7_Witness ==
    /\ fs_pc = "done"
    /\ subject_string = Braced(Key_uuid)
    /\ calls = <<<<Key_uuid, <<"b", "-", "2">>>>>>
    /\ result = <<"b", "-", "2">>

(* C8: fill_string never fails: on every input the key slice of line 78 is
   a valid slice and the call returns. *)
C8_NeverPanics == fs_pc # "panic"

RECURSIVE IsFillOf(_, _)
\* out has the keys of in; objects are filled recursively and strings are
\* results of fill_string
IsFillOf(in, out) ==
    /\ DOMAIN out = DOMAIN in
    /\ \A k \in DOMAIN in :
        CASE in[k].type = "object" ->
                out[k].type = "object" /\ IsFillOf(in[k].val, out[k].val)
          [] in[k].type = "string" ->
                /\ out[k].type = "string"
                /\ \E st \in fill_string(in[k].val) :
                        ~st.panicked /\ st.result = out[k].val
          [] OTHER -> TRUE

(* C9: the map fill_object_fields returns has the key set of its argument
   at every depth; each nested object is the recursive fill of the nested
   object, and each string is a result of fill_string on the string. *)
C9_ShapePreserved == fo_pc = "done" => IsFillOf(object, filled)

C9_Witness ==
    /\ fo_pc = "done"
    /\ object = [a |-> JObject([c |-> PlaceholderString]), b |-> JNumber(42)]
    /\ filled.a = JObject([c |-> JString(<<"t", "r", "u", "e">>)])

RECURSIVE OthersIdentical(_, _)
\* every value of in that is neither a string nor an object, at any depth of
\* nested objects, is the same value in out
OthersIdentical(in, out) ==
    \A k \in DOMAIN in :
        CASE in[k].type = "object" ->
                out[k].type = "object" /\ OthersIdentical(in[k].val, out[k].val)
          [] in[k].type = "string" -> TRUE
          [] OTHER -> out[k] = in[k]

RECURSIVE NumStrings(_)
\* the number of string values of a map, through nested objects only
NumStrings(map) ==
    IF DOMAIN map = {} THEN 0
    ELSE LET k == CHOOSE x \in DOMAIN map : TRUE
             rest == [x \in DOMAIN map \ {k} |-> map[x]]
             here == CASE map[k].type = "object" -> NumStrings(map[k].val)
                       [] map[k].type = "string" -> 1
                       [] OTHER -> 0
         IN here + NumStrings(rest)

(* C10: numbers, booleans, null and arrays come back identical, arrays with
   their elements unvisited: a placeholder string or an object inside an
   array is returned as it was and no generator is invoked for it (each
   input string holds at most one placeholder, so the generators invoked
   are at most the strings outside arrays). *)
C10_OthersVerbatim ==
    fo_pc = "done" =>
        /\ OthersIdentical(object, filled)
        /\ gen_calls <= NumStrings(object)

C10_Witness ==
    /\ fo_pc = "done"
    /\ object = [a |-> JArray(<<PlaceholderString, JObject([c |-> PlaceholderString])>>),
                 b |-> JNull]
    /\ filled = object
    /\ gen_calls = 0


(* C11: in a session every iteration runs draw, sleep, parse, fill, emit in
   that order and emits one event: with n events emitted, the session has
   drawn, slept and filled n times when it is about to draw, and is exactly
   one draw, then one sleep, then one fill ahead of n on its way to the
   next emit; so event n is emitted before the draw for event n + 1, and
   no event, the first included, is emitted without its own sleep. *)
C11_IterationOrder ==
    \A s \in Sessions :
        LET n == Len(events[s]) IN
        /\ n <= fills[s] /\ fills[s] <= sleeps[s] /\ sleeps[s] <= draws[s]
        /\ draws[s] <= n + 1
        /\ pc[s] = "extract" => draws[s] = 0 /\ n = 0
        /\ pc[s] = "draw" => draws[s] = n /\ sleeps[s] = n /\ fills[s] = n
        /\ pc[s] = "sleep" => draws[s] = n + 1 /\ sleeps[s] = n /\ fills[s] = n
        /\ pc[s] \in {"parse", "fill"} =>
                draws[s] = n + 1 /\ sleeps[s] = n + 1 /\ fills[s] = n
        /\ pc[s] = "emit" =>
                draws[s] = n + 1 /\ sleeps[s] = n + 1 /\ fills[s] = n + 1

C11_Witness ==
    \E s \in Sessions :
        /\ Len(events[s]) = 2 /\ pc[s] = "draw"
        /\ draws[s] = 2 /\ sleeps[s] = 2 /\ fills[s] = 2


\* the session's shape is a JSON text whose root is an object
ShapeIsObject(s) ==
    /\ river_query[s].shape.kind = "json"
    /\ river_query[s].shape.value.type = "object"

\* the session's delay range is not empty
RangeNotEmpty(s) == river_query[s].interval_min < river_query[s].interval_max

(* C12: the loop has no exit of its own: a session that entered STREAMING,
   whose shape parses to an object and whose interval_min < interval_max,
   is TERMINATED only by a client disconnect. *)
C12_OnlyDisconnectEnds ==
    \A s \in Sessions :
        (Accepted(s) /\ ShapeIsObject(s) /\ RangeNotEmpty(s)
            /\ phase[s] = "TERMINATED")
        => cause[s] = "disconnect"


\* everything the model keeps of one session
SessionState(s) ==
    <<phase[s], river_query[s], response[s], pc[s], delay[s], shape[s],
      message[s], events[s], draws[s], sleeps[s], fills[s], cause[s]>>

\* a session ended by a panic in its stream
Faulted(s) == cause[s] \in {"empty range", "parse", "fill"}

(* C13: sessions are isolated: every step is a step of one session and
   leaves the state and the emitted events of every other session as they
   were; in particular no step of one session moves another session to
   TERMINATED.  (The registry is the immutable STRING_SUBSTITUTIONS: no
   step can change its keys.) *)
C13_SessionsIsolated ==
    [][\A s, t \in Sessions :
            s # t => \/ SessionState(s)' = SessionState(s)
                     \/ SessionState(t)' = SessionState(t)]_vars

C13_Witness ==
    \E s, t \in Sessions :
        /\ s # t
        /\ Faulted(s) /\ phase[s] = "TERMINATED"
        /\ phase[t] = "STREAMING" /\ Len(events[t]) = 2


(* C14: a session whose shape is not JSON, or is JSON with a root that is
   not an object, never gets past the parse step of its first iteration: it
   draws and sleeps at most once, the panic of the parse comes after that
   one sleep and terminates it, fill_object_fields is never called and no
   event is emitted. *)
C14_BadShapeEndsAtFirstParse ==
    \A s \in Sessions :
        ~ShapeIsObject(s) =>
            /\ fills[s] = 0 /\ events[s] = <<>> /\ message[s] = <<>>
            /\ pc[s] \notin {"fill", "emit"}
            /\ draws[s] <= 1 /\ sleeps[s] <= 1
            /\ pc[s] = "parse" => sleeps[s] = 1
            /\ cause[s] = "parse" =>
                    phase[s] = "TERMINATED" /\ draws[s] = 1 /\ sleeps[s] = 1
            /\ (Faulted(s) /\ RangeNotEmpty(s)) => cause[s] = "parse"

C14_Witness ==
    \E s \in Sessions :
        /\ river_query[s].shape.kind = "json" /\ ~ShapeIsObject(s)
        /\ phase[s] = "TERMINATED" /\ cause[s] = "parse"
        /\ sleeps[s] = 1 /\ fills[s] = 0 /\ events[s] = <<>>


(* C15: a request with interval_min >= interval_max that validation lets
   through ends at the delay draw of its first iteration: gen_range panics
   on the empty range, so the session never holds a delay, never sleeps,
   parses, fills or emits, and it is TERMINATED by that panic (unless the
   client disconnected first). *)
C15_EmptyRangeEndsAtFirstDraw ==
    \A s \in Sessions :
        river_query[s].interval_min >= river_query[s].interval_max =>
            /\ draws[s] = 0 /\ sleeps[s] = 0 /\ fills[s] = 0
            /\ delay[s] = 0 /\ events[s] = <<>>
            /\ pc[s] \in {"extract", "draw", "dead"}
            /\ Faulted(s) => cause[s] = "empty range" /\ phase[s] = "TERMINATED"
            /\ (Accepted(s) /\ phase[s] = "TERMINATED") =>
                    cause[s] \in {"empty range", "disconnect"}

C15_Witness ==
    \E s \in Sessions :
        /\ river_query[s].interval_min = river_query[s].interval_max
        /\ Accepted(s)
        /\ phase[s] = "TERMINATED" /\ cause[s] = "empty range"
        /\ events[s] = <<>>


\* s is '{' k '}' for a key k that holds no brace and is not registered
IsBracedUnregistered(s) ==
    /\ Len(s) >= 2 /\ s[1] = "{" /\ s[Len(s)] = "}"
    /\ NoBraces(SubSeq(s, 2, Len(s) - 1))
    /\ SubSeq(s, 2, Len(s) - 1) \notin RegisteredKeys

(* C16: a '}' that closes an unregistered key appends nothing and leaves
   the scanner inside the placeholder with the key start as it was; so
   fill_string of '{' k '}' for an unregistered k returns the empty string,
   with the scanner still inside the placeholder opened at offset 1. *)
C16_UnregisteredKeyOmitted ==
    IsBracedUnregistered(subject_string) =>
        /\ fs_pc # "panic"
        /\ fs_pc = "done" =>
            /\ result = <<>> /\ calls = <<>>
            /\ is_placeholder /\ placeholder_start = 1


\* the 1-based position of the last '{' of s (0 when it has none)
LastOpen(s) ==
    IF \E i \in 1..Len(s) : s[i] = "{"
    THEN CHOOSE i \in 1..Len(s) : s[i] = "{" /\ \A j \in (i + 1)..Len(s) : s[j] # "{"
    ELSE 0

(* C17: when the string ends with the scanner inside a placeholder, the
   result and the generators invoked are exactly those the scan had before
   the last '{': no char from that '{' to the end is in the output and no
   generator is invoked for the partial key. *)
C17_UnterminatedDiscarded ==
    (fs_pc = "done" /\ is_placeholder) =>
        /\ LastOpen(subject_string) > 0
        /\ \E st \in ScanPrefix(subject_string, LastOpen(subject_string) - 1) :
            ~st.panicked /\ st.result = result /\ st.calls = calls

C17_Witness ==
    /\ fs_pc = "done" /\ is_placeholder
    /\ subject_string = <<"x", "{", "n", "o">>
    /\ result = <<"x">> /\ calls = <<>>


\* the char the loop has just handled is a '}' that it met outside any
\* placeholder
StrayCloseJustScanned ==
    /\ fs_pc # "idle" /\ char_index > 0
    /\ subject_string[char_index] = "}"
    /\ \A st \in ScanPrefix(subject_string, char_index - 1) : ~st.is_placeholder

(* C18 as stated: a stray '}' is dropped: handling it is no error and
   leaves the output as it was. *)
C18_StrayCloseDropped ==
    StrayCloseJustScanned =>
        /\ fs_pc # "panic"
        /\ \E st \in ScanPrefix(subject_string, char_index - 1) :
            st.result = result /\ st.calls = calls

(* C18 amended: a stray '}' is no error and is not dropped: handling it
   appends the '}' to the output like any other char, invokes no generator
   and leaves the scanner outside. *)
C18_StrayCloseCopied ==
    StrayCloseJustScanned =>
        /\ fs_pc # "panic"
        /\ ~is_placeholder
        /\ \E st \in ScanPrefix(subject_string, char_index - 1) :
            result = Append(st.result, "}") /\ st.calls = calls

C18_Witness ==
    /\ fs_pc = "done"
    /\ subject_string = <<"{", "i", "p", "}", "}">>
    /\ result \in {v \o <<"}">> : v \in Generate(Key_ip)}


(* C19: the shape is the same string on every tick, so the parse has the
   same outcome on every tick: a session that has emitted an event is never
   TERMINATED by a parse error, a session ended by a parse error ended on
   its first tick, and a session that got past a parse has a shape that is
   a JSON object. *)
C19_ParseOutcomeFixed ==
    \A s \in Sessions :
        /\ Len(events[s]) > 0 => cause[s] # "parse"
        /\ cause[s] = "parse" =>
                draws[s] = 1 /\ sleeps[s] = 1 /\ events[s] = <<>>
        /\ (fills[s] > 0 \/ pc[s] \in {"fill", "emit"}) => ShapeIsObject(s)

C19_Witness ==
    \E s \in Sessions :
        /\ Len(events[s]) = 2 /\ sleeps[s] = 2
        /\ phase[s] = "TERMINATED" /\ cause[s] = "disconnect"


\* s is an unregistered placeholder '{' u '}' (u without braces) followed at
\* once by the placeholder '{' k '}' of the registered key k
IsUnregisteredThen(s, k) ==
    LET m == Len(s) - (Len(k) + 2) IN
    /\ m >= 2
    /\ SubSeq(s, m + 1, Len(s)) = Braced(k)
    /\ IsBracedUnregistered(SubSeq(s, 1, m))

(* C20: a '{' always (re)starts the token, also inside a placeholder: right
   after it the scanner is inside with the key start at the next char; so
   fill_string of an unregistered placeholder followed at once by a
   registered one does not fail, invokes the generator of the registered
   key once and no other, returns that value and ends outside. *)
C20_OpenBraceRestartsToken ==
    /\ (fs_pc # "idle" /\ char_index > 0 /\ subject_string[char_index] = "{") =>
            is_placeholder /\ placeholder_start = char_index
    /\ \A k \in RegisteredKeys :
        IsUnregisteredThen(subject_string, k) =>
            /\ fs_pc # "panic"
            /\ fs_pc = "done" =>
                /\ Len(calls) = 1 /\ calls[1][1] = k
                /\ result = calls[1][2]
                /\ ~is_placeholder /\ placeholder_start = 0

====
